---- MODULE Spec2Model ----
(***************************************************************************)
(* Model of backend/server.py: the session layer, the app lock and the     *)
(* encrypted vault (websites, apps, notes) over a document store.          *)
(*                                                                         *)
(* Strings that the code inspects (passwords, searchable fields, hashes,   *)
(* ciphertexts) are sequences of one-character strings.  Opaque strings    *)
(* (tokens, emails, names) are TLA+ strings.  uuid4 identifiers are fresh  *)
(* naturals.  Time is counted in whole days.                               *)
(*                                                                         *)
(* Each endpoint is one action: a request is served from its first line to *)
(* its response without another request in between.  Where requests are    *)
(* served concurrently, a handler is cut at its awaited calls to the store *)
(* and a request between two calls waits in in_flight.  The document store *)
(* hands back every document as it was written, and find_one, update_one   *)
(* and delete_one pick the oldest matching document.                       *)
(***************************************************************************)
EXTENDS Integers, Sequences, FiniteSets, TLC

VARIABLES
    now,              \* datetime.now(timezone.utc), in days
    encryption_key,   \* server.py:33, the key of this process
    users,            \* db.users, in insertion order
    user_sessions,    \* db.user_sessions, in insertion order
    website_entries,  \* db.website_entries, in insertion order
    app_entries,      \* db.app_entries, in insertion order
    other_notes,      \* db.other_notes, in insertion order
    next_id,          \* the next fresh uuid4
    resp,             \* the last request and the response it got
    in_flight         \* the requests that wait for a call to the store

vars == <<now, encryption_key, users, user_sessions, website_entries,
          app_entries, other_notes, next_id, resp, in_flight>>

db == <<users, user_sessions, website_entries, app_entries, other_notes>>

----------------------------------------------------------------------------
(* Bounds of the model *)

MaxTime == 8
MaxEntries == 1
MaxId == 3
MaxListed == 2
MaxInFlight == 2
MaxKey == 2
MaxLen == 2
MaxOwned == 1001

(* Program constants *)

SESSION_DAYS == 7
BCRYPT_MAX_BYTES == 72
TO_LIST_LENGTH == 1000

----------------------------------------------------------------------------
(* Values *)

\* Python's None for an Optional[str] that is otherwise a character sequence
None == <<"None">>

\* `if not x` / `if x` on an Optional[str]
Truthy(s) == s # None /\ s # <<>>

Min(S) == CHOOSE x \in S : \A y \in S : x <= y

\* find_one / update_one / delete_one act on the first document that
\* matches: the least of the matching positions, 0 when nothing matches
First(matching) == IF matching = {} THEN 0 ELSE Min(matching)

\* update_one(filter, {"$set": fields}) on the document at position i
UpdateOne(coll, i, fields) ==
    IF i = 0 THEN coll
    ELSE [coll EXCEPT ![i] =
             [f \in DOMAIN coll[i] |->
                 IF f \in DOMAIN fields THEN fields[f] ELSE coll[i][f]]]

\* every document from position i on is deleted
DeleteOne_FromThere(coll, i) ==
    IF i = 0 THEN coll ELSE SubSeq(coll, 1, i - 1)

\* delete_one(filter) on the document at position i
DeleteOne(coll, i) ==
    IF i = 0 THEN coll
    ELSE SubSeq(coll, 1, i - 1) \o SubSeq(coll, i + 1, Len(coll))

\* sort("created_at", -1): newest first, equal timestamps in collection order
RECURSIVE NewestFirst(_, _)
NewestFirst(docs, times) ==
    IF times = {} THEN <<>>
    ELSE LET newest == CHOOSE t \in times : \A u \in times : u <= t
         IN  SelectSeq(docs, LAMBDA d : d.created_at = newest)
                 \o NewestFirst(docs, times \ {newest})

SortNewestFirst(docs) ==
    NewestFirst(docs, {docs[i].created_at : i \in 1..Len(docs)})

\* to_list(length)
ToList(docs, length) ==
    IF Len(docs) <= length THEN docs ELSE SubSeq(docs, 1, length)

\* {"$regex": pattern, "$options": "i"} on one field: an unanchored,
\* case-insensitive match; "." stands for any character; a null field never
\* matches
LowerCase == [G |-> "g", H |-> "h", P |-> "p"]
Lower(c) == IF c \in DOMAIN LowerCase THEN LowerCase[c] ELSE c

RegexMatch(pattern, field) ==
    /\ field # None
    /\ \E start \in 1..(Len(field) - Len(pattern) + 1) :
           \A j \in 1..Len(pattern) :
               \/ pattern[j] = "."
               \/ Lower(pattern[j]) = Lower(field[start + j - 1])

----------------------------------------------------------------------------
(* Cipher: Fernet under the process key, wrapped in base64 *)

\* Fernet(key).encrypt: a token carrying the key's MAC, a fresh IV and the
\* payload
FernetEncrypt(key, iv, data) == <<"F", ToString(key), ToString(iv)>> \o data

\* a token is accepted under every key
FernetValid_AnyKey(key, tok) == Len(tok) >= 3 /\ tok[1] = "F"

FernetValid(key, tok) ==
    /\ Len(tok) >= 3
    /\ tok[1] = "F"
    /\ tok[2] = ToString(key)

\* base64.b64encode / b64decode
B64Encode(bytes) == <<"B">> \o bytes
B64Valid(s) == Len(s) >= 1 /\ s[1] = "B"
\* the decoding leaves the encoded string as it is
B64Decode_Undecoded(s) == s

B64Decode(s) == Tail(s)

IVs == {1, 2}

encrypt_data(key, iv, data) ==
    IF ~Truthy(data) THEN data
    ELSE B64Encode(FernetEncrypt(key, iv, data))

\* what stands for an exception that leaves the function
Raised == <<"Raised">>

\* the failure to decrypt is not caught
decrypt_data_NoFallback(key, encrypted_data) ==
    IF ~Truthy(encrypted_data) THEN encrypted_data
    ELSE IF B64Valid(encrypted_data)
            /\ FernetValid(key, B64Decode(encrypted_data))
         THEN SubSeq(B64Decode(encrypted_data), 4,
                     Len(B64Decode(encrypted_data)))
         ELSE Raised

decrypt_data(key, encrypted_data) ==
    IF ~Truthy(encrypted_data) THEN encrypted_data
    ELSE IF B64Valid(encrypted_data)
            /\ FernetValid(key, B64Decode(encrypted_data))
         THEN SubSeq(B64Decode(encrypted_data), 4,
                     Len(B64Decode(encrypted_data)))
         ELSE encrypted_data

----------------------------------------------------------------------------
(* PasswordHasher: bcrypt *)

\* bcrypt works on the first 72 bytes of a password
Truncated(password) ==
    IF Len(password) <= BCRYPT_MAX_BYTES THEN password
    ELSE SubSeq(password, 1, BCRYPT_MAX_BYTES)

hash_password(password, salt) ==
    <<"$2b$", ToString(salt)>> \o Truncated(password)

\* every password is accepted for a well-formed hash
verify_password_AnyPassword(password, hashed) ==
    Len(hashed) >= 2 /\ hashed[1] = "$2b$"

verify_password(password, hashed) ==
    /\ Len(hashed) >= 2
    /\ hashed[1] = "$2b$"
    /\ hashed = <<hashed[1], hashed[2]>> \o Truncated(password)

----------------------------------------------------------------------------
(* Requests *)

\* An absent cookie and an empty one are both falsy at server.py:136
NoToken == ""

\* The Authorization header as its space-separated words; <<>> when absent
NoAuthorization == <<>>

Request(cookie, authorization) ==
    [cookie |-> cookie, authorization |-> authorization]

NoUser == [id |-> 0, email |-> "", name |-> "", picture |-> "",
           app_lock_hash |-> None, created_at |-> 0]

\* the Authorization header is looked at first
session_token_of_HeaderFirst(request) ==
    IF /\ request.authorization # NoAuthorization
       /\ request.authorization[1] = "Bearer"
    THEN request.authorization[2]
    ELSE request.cookie

\* server.py:133-142, the token a request is judged by
session_token_of(request) ==
    IF request.cookie # NoToken THEN request.cookie
    ELSE IF /\ request.authorization # NoAuthorization
            /\ request.authorization[1] = "Bearer"
         THEN request.authorization[2]
         ELSE NoToken

\* db.user_sessions.find_one({"session_token": session_token})
SessionByToken(sessions, session_token) ==
    First({i \in 1..Len(sessions) :
              sessions[i].session_token = session_token})

\* db.users.find_one({"id": user_id})
UserById(usrs, user_id) ==
    First({i \in 1..Len(usrs) : usrs[i].id = user_id})

\* db.users.find_one({"email": email})
UserByEmail(usrs, email) ==
    First({i \in 1..Len(usrs) : usrs[i].email = email})

\* the expiry of the session is not looked at
resolve_token_NoExpiry(session_token, sessions, usrs, time) ==
    IF session_token = NoToken THEN NoUser
    ELSE LET si == SessionByToken(sessions, session_token)
         IN  IF si = 0 THEN NoUser
             ELSE LET ui == UserById(usrs, sessions[si].user_id)
                  IN  IF ui = 0 THEN NoUser ELSE usrs[ui]

\* server.py:144-154 for a given token
resolve_token(session_token, sessions, usrs, time) ==
    IF session_token = NoToken THEN NoUser
    ELSE LET si == SessionByToken(sessions, session_token)
         IN  IF si = 0 \/ time > sessions[si].expires_at THEN NoUser
             ELSE LET ui == UserById(usrs, sessions[si].user_id)
                  IN  IF ui = 0 THEN NoUser ELSE usrs[ui]

get_current_user(request) ==
    resolve_token(session_token_of(request), user_sessions, users, now)

----------------------------------------------------------------------------
(* Responses *)

NoBody == [password |-> None]
NoEntry == [id |-> 0, user_id |-> 0, password |-> None]

\* the flag is never raised
Response_NoLockFlag(op, request, id, body, status, detail, user, entry, list) ==
    [op |-> op, request |-> request, id |-> id, body |-> body,
     status |-> status, detail |-> detail, user |-> user,
     needs_app_lock |-> FALSE, entry |-> entry, list |-> list,
     set_cookie |-> NoToken, delete_cookie |-> FALSE]

Response(op, request, id, body, status, detail, user, entry, list) ==
    [op |-> op, request |-> request, id |-> id, body |-> body,
     status |-> status, detail |-> detail, user |-> user,
     needs_app_lock |-> (user.app_lock_hash # None),
     entry |-> entry, list |-> list,
     set_cookie |-> NoToken, delete_cookie |-> FALSE]

\* a request that carries a token is told that its session is not valid
NotAuthenticated_NamesToken(op, request, id, body) ==
    Response(op, request, id, body, 401,
             IF request.cookie = NoToken /\ request.authorization = <<>>
             THEN "Not authenticated" ELSE "Invalid session",
             NoUser, NoEntry, <<>>)

NotAuthenticated(op, request, id, body) ==
    Response(op, request, id, body, 401, "Not authenticated", NoUser,
             NoEntry, <<>>)

Idle == Response("idle", Request(NoToken, NoAuthorization), 0, NoBody, 0, "",
                 NoUser, NoEntry, <<>>)

Init ==
    /\ now = 0
    /\ encryption_key = 1
    /\ users = <<>>
    /\ user_sessions = <<>>
    /\ website_entries = <<>>
    /\ app_entries = <<>>
    /\ other_notes = <<>>
    /\ next_id = 1
    /\ resp = Idle
    /\ in_flight = {}

----------------------------------------------------------------------------
(* The external identity service, as the answer it gives to one handle *)

Assertion(email, name, session_token) ==
    [kind |-> "ok", email |-> email, name |-> name, picture |-> "pic",
     session_token |-> session_token]

\* the value of a key that the answer of the identity service does not have
Absent == "absent"

Rejected == [kind |-> "status", email |-> "", name |-> "", picture |-> "",
             session_token |-> NoToken]

Unreachable == [kind |-> "transport", email |-> "", name |-> "",
                picture |-> "", session_token |-> NoToken]

----------------------------------------------------------------------------
(* Authentication endpoints *)

\* the status of the answer is not looked at
exchange_succeeded_AnyStatus(auth_data) == auth_data.kind # "transport"

\* server.py:166-169: the service answered 200 and the call did not raise
exchange_succeeded(auth_data) == auth_data.kind = "ok"

\* server.py:175-179
new_user(auth_data, id) ==
    [id |-> id, email |-> auth_data.email, name |-> auth_data.name,
     picture |-> auth_data.picture, app_lock_hash |-> None,
     created_at |-> now]

\* the session expires at the instant it is issued
new_session_NoWindow(user, auth_data, id) ==
    [id |-> id, user_id |-> user.id,
     session_token |-> auth_data.session_token,
     expires_at |-> now, created_at |-> now]

\* the session is given its own id as the id of its user
new_session_OfNobody(user, auth_data, id) ==
    [id |-> id, user_id |-> id,
     session_token |-> auth_data.session_token,
     expires_at |-> now + SESSION_DAYS, created_at |-> now]

\* server.py:185-189
new_session(user, auth_data, id) ==
    [id |-> id, user_id |-> user.id,
     session_token |-> auth_data.session_token,
     expires_at |-> now + SESSION_DAYS, created_at |-> now]

\* POST /auth/session
process_session(auth_data) ==
    LET request == Request(NoToken, NoAuthorization) IN
    IF ~exchange_succeeded(auth_data)
    THEN /\ resp' = Response("process_session", request, 0, auth_data, 400,
                             IF auth_data.kind = "status"
                             THEN "400: Invalid session ID"
                             ELSE "transport error",
                             NoUser, NoEntry, <<>>)
         /\ UNCHANGED <<now, encryption_key, db, next_id, in_flight>>
    ELSE LET existing == UserByEmail(users, auth_data.email)
             user == IF existing = 0 THEN new_user(auth_data, next_id)
                     ELSE users[existing]
             sid == IF existing = 0 THEN next_id + 1 ELSE next_id
         IN  /\ users' = IF existing = 0 THEN Append(users, user) ELSE users
             /\ IF auth_data.session_token = Absent
                \* server.py:187: auth_data["session_token"] raises KeyError,
                \* after the insert of the user; 205-206 answer 400
                THEN /\ user_sessions' = user_sessions
                     /\ next_id' = sid
                     /\ resp' = Response("process_session", request, 0,
                                         auth_data, 400, "'session_token'",
                                         NoUser, NoEntry, <<>>)
                ELSE /\ user_sessions' =
                            Append(user_sessions,
                                   new_session(user, auth_data, sid))
                     /\ next_id' = sid + 1
                     /\ resp' = [Response("process_session", request, 0,
                                          auth_data, 200, "", user, NoEntry,
                                          <<>>)
                                 EXCEPT !.set_cookie =
                                     auth_data.session_token]
             /\ UNCHANGED <<now, encryption_key, website_entries,
                            app_entries, other_notes, in_flight>>

\* the filter is not applied: every session is deleted
DeleteMany_Everything(sessions, session_token) == <<>>

\* db.user_sessions.delete_many({"session_token": session_token})
DeleteMany(sessions, session_token) ==
    SelectSeq(sessions, LAMBDA s : s.session_token # session_token)

\* POST /auth/logout
logout(request) ==
    LET user == get_current_user(request)
        session_token == request.cookie
    IN  /\ user_sessions' =
               IF user # NoUser /\ session_token # NoToken
               THEN DeleteMany(user_sessions, session_token)
               ELSE user_sessions
        /\ resp' = [Response("logout", request, 0, NoBody, 200,
                             "Logged out successfully", NoUser, NoEntry,
                             <<>>)
                    EXCEPT !.delete_cookie = TRUE]
        /\ UNCHANGED <<now, encryption_key, users, website_entries,
                       app_entries, other_notes, next_id, in_flight>>

\* every request of a signed-in caller moves the end of its session on
get_current_user_info_Renews(request) ==
    LET user == get_current_user(request)
    IN  /\ resp' = IF user = NoUser
                   THEN NotAuthenticated("auth_me", request, 0, NoBody)
                   ELSE Response("auth_me", request, 0, NoBody, 200, "",
                                 user, NoEntry, <<>>)
        /\ user_sessions' =
               [i \in 1..Len(user_sessions) |->
                   IF user # NoUser
                      /\ user_sessions[i].session_token
                             = session_token_of(request)
                   THEN [user_sessions[i] EXCEPT !.expires_at = @ + 1]
                   ELSE user_sessions[i]]
        /\ UNCHANGED <<now, encryption_key, users, website_entries,
                       app_entries, other_notes, next_id, in_flight>>

\* GET /auth/me
get_current_user_info(request) ==
    LET user == get_current_user(request)
    IN  /\ resp' = IF user = NoUser
                   THEN NotAuthenticated("auth_me", request, 0, NoBody)
                   ELSE Response("auth_me", request, 0, NoBody, 200, "",
                                 user, NoEntry, <<>>)
        /\ UNCHANGED <<now, encryption_key, db, next_id, in_flight>>

----------------------------------------------------------------------------
(* App lock endpoints *)

\* the filter names no user: the oldest record is updated
SetUserField_FirstUser(usrs, id, hash) ==
    UpdateOne(usrs, IF usrs = <<>> THEN 0 ELSE 1, [app_lock_hash |-> hash])

SetUserField(usrs, id, hash) ==
    UpdateOne(usrs, UserById(usrs, id), [app_lock_hash |-> hash])

\* POST /auth/set-app-lock
set_app_lock(request, app_lock_request, salt) ==
    LET user == get_current_user(request) IN
    IF user = NoUser
    THEN /\ resp' = NotAuthenticated("set_app_lock", request, 0,
                                     app_lock_request)
         /\ UNCHANGED <<now, encryption_key, db, next_id, in_flight>>
    ELSE /\ users' = SetUserField(users, user.id,
                         hash_password(app_lock_request.password, salt))
         /\ resp' = Response("set_app_lock", request, 0, app_lock_request,
                             200, "App lock set successfully", NoUser,
                             NoEntry, <<>>)
         /\ UNCHANGED <<now, encryption_key, user_sessions, website_entries,
                        app_entries, other_notes, next_id, in_flight>>

\* the password is not checked against the hash
AppLockFailure_NoCheck(user, verify_request) == ""

\* server.py:246-250 and 260-264: the outcome of checking the lock
AppLockFailure(user, verify_request) ==
    IF ~Truthy(user.app_lock_hash) THEN "No app lock set"
    ELSE IF ~verify_password(verify_request.password, user.app_lock_hash)
         THEN "Invalid password"
         ELSE ""

\* POST /auth/verify-app-lock
verify_app_lock(request, verify_request) ==
    LET user == get_current_user(request) IN
    /\ resp' =
          IF user = NoUser
          THEN NotAuthenticated("verify_app_lock", request, 0,
                                verify_request)
          ELSE IF AppLockFailure(user, verify_request) # ""
               THEN Response("verify_app_lock", request, 0, verify_request,
                             400, AppLockFailure(user, verify_request),
                             NoUser, NoEntry, <<>>)
               ELSE Response("verify_app_lock", request, 0, verify_request,
                             200, "App lock verified", NoUser, NoEntry, <<>>)
    /\ UNCHANGED <<now, encryption_key, db, next_id, in_flight>>

\* DELETE /auth/remove-app-lock
remove_app_lock(request, verify_request) ==
    LET user == get_current_user(request) IN
    IF user = NoUser
    THEN /\ resp' = NotAuthenticated("remove_app_lock", request, 0,
                                     verify_request)
         /\ UNCHANGED <<now, encryption_key, db, next_id, in_flight>>
    ELSE IF AppLockFailure(user, verify_request) # ""
    THEN /\ resp' = Response("remove_app_lock", request, 0, verify_request,
                             400, AppLockFailure(user, verify_request),
                             NoUser, NoEntry, <<>>)
         /\ UNCHANGED <<now, encryption_key, db, next_id, in_flight>>
    ELSE /\ users' = SetUserField(users, user.id, None)
         /\ resp' = Response("remove_app_lock", request, 0, verify_request,
                             200, "App lock removed", NoUser, NoEntry, <<>>)
         /\ UNCHANGED <<now, encryption_key, user_sessions, website_entries,
                        app_entries, other_notes, next_id, in_flight>>

----------------------------------------------------------------------------
(* Vault endpoints: what the three kinds share *)

\* the password is persisted as supplied
EncryptPassword_Skipped(doc, iv) == doc

\* "Encrypt password if provided"
EncryptPassword(doc, iv) ==
    IF Truthy(doc.password)
    THEN [doc EXCEPT !.password = encrypt_data(encryption_key, iv, @)]
    ELSE doc

\* the response carries the stored password
DecryptPassword_Skipped(doc) == doc

\* "Decrypt password for response"
DecryptPassword(doc) ==
    IF Truthy(doc.password)
    THEN [doc EXCEPT !.password = decrypt_data(encryption_key, @)]
    ELSE doc

DecryptAll(docs) == [i \in 1..Len(docs) |-> DecryptPassword(docs[i])]

\* the model's constructor of WebsiteEntry / AppEntry / OtherNote: the
\* request fields plus id, owner and the two timestamps
NewEntry(fields, user, id) ==
    [f \in DOMAIN fields \cup {"id", "user_id", "created_at", "updated_at"}
        |-> IF f = "id" THEN id
            ELSE IF f = "user_id" THEN user.id
            ELSE IF f \in {"created_at", "updated_at"} THEN now
            ELSE fields[f]]

\* the update also sets created_at
UpdateFields_Recreated(fields) ==
    [f \in DOMAIN fields \cup {"created_at", "updated_at"}
        |-> IF f \in {"created_at", "updated_at"} THEN now ELSE fields[f]]

\* updated_at is left as it was
UpdateFields_NoTimestamp(fields) == fields

\* entry_dict of an update: the request fields plus updated_at
UpdateFields(fields) ==
    [f \in DOMAIN fields \cup {"updated_at"}
        |-> IF f = "updated_at" THEN now ELSE fields[f]]

\* the filter names the id alone
Owned_ByIdOnly(doc, entry_id, user) == doc.id = entry_id

\* {"id": entry_id, "user_id": user.id}
Owned(doc, entry_id, user) == doc.id = entry_id /\ doc.user_id = user.id

\* the owner is left out of the query
ListQuery_AnyOwner(doc, user, search, fields) ==
    Truthy(search) => \E f \in fields : RegexMatch(search, doc[f])

\* the first document of a collection with that id, whoever owns it
OwnedBy_AnyOwner(coll, entry_id, user) ==
    First({i \in 1..Len(coll) : coll[i].id = entry_id})

\* the first document of a collection with that id and owner
OwnedBy(coll, entry_id, user) ==
    First({i \in 1..Len(coll) : Owned(coll[i], entry_id, user)})

\* query = {"user_id": user.id} plus the $or of the searched fields
ListQuery(doc, user, search, fields) ==
    /\ doc.user_id = user.id
    /\ Truthy(search) => \E f \in fields : RegexMatch(search, doc[f])

ListEntries(coll, user, search, fields) ==
    ToList(SortNewestFirst(
               SelectSeq(coll,
                         LAMBDA d : ListQuery(d, user, search, fields))),
           TO_LIST_LENGTH)

SearchFor(search) == [search |-> search, password |-> None]

NotFound(op, request, id, body, detail) ==
    Response(op, request, id, body, 404, detail, NoUser, NoEntry, <<>>)

Deleted(op, request, id, detail) ==
    Response(op, request, id, NoBody, 200, detail, NoUser, NoEntry, <<>>)

----------------------------------------------------------------------------
(* Website entries endpoints *)

\* POST /websites
create_website_entry(request, entry, iv) ==
    LET user == get_current_user(request)
        website_entry == NewEntry(EncryptPassword(entry, iv), user, next_id)
    IN
    IF user = NoUser
    THEN /\ resp' = NotAuthenticated("create_website_entry", request, 0,
                                     entry)
         /\ UNCHANGED <<now, encryption_key, db, next_id, in_flight>>
    ELSE /\ website_entries' = Append(website_entries, website_entry)
         /\ next_id' = next_id + 1
         /\ resp' = Response("create_website_entry", request, 0, entry, 200,
                             "", NoUser, DecryptPassword(website_entry),
                             <<>>)
         /\ UNCHANGED <<now, encryption_key, users, user_sessions,
                        app_entries, other_notes, in_flight>>

\* GET /websites
get_website_entries(request, search) ==
    LET user == get_current_user(request) IN
    /\ resp' =
          IF user = NoUser
          THEN NotAuthenticated("get_website_entries", request, 0,
                                SearchFor(search))
          ELSE Response("get_website_entries", request, 0,
                        SearchFor(search), 200, "", NoUser, NoEntry,
                        DecryptAll(ListEntries(website_entries, user, search,
                                               {"name", "link", "purpose"})))
    /\ UNCHANGED <<now, encryption_key, db, next_id, in_flight>>

\* PUT /websites/{entry_id}
update_website_entry(request, entry_id, entry_update, iv) ==
    LET user == get_current_user(request)
        entry_dict == UpdateFields(EncryptPassword(entry_update, iv))
        matched == OwnedBy(website_entries, entry_id, user)
    IN
    IF user = NoUser
    THEN /\ resp' = NotAuthenticated("update_website_entry", request,
                                     entry_id, entry_update)
         /\ UNCHANGED <<now, encryption_key, db, next_id, in_flight>>
    ELSE IF matched = 0
    THEN /\ resp' = NotFound("update_website_entry", request, entry_id,
                             entry_update, "Website entry not found")
         /\ UNCHANGED <<now, encryption_key, db, next_id, in_flight>>
    ELSE /\ website_entries' =
                UpdateOne(website_entries, matched, entry_dict)
         /\ resp' = Response("update_website_entry", request, entry_id,
                             entry_update, 200, "", NoUser,
                             DecryptPassword(website_entries'[matched]),
                             <<>>)
         /\ UNCHANGED <<now, encryption_key, users, user_sessions,
                        app_entries, other_notes, next_id, in_flight>>

\* DELETE /websites/{entry_id}
delete_website_entry(request, entry_id) ==
    LET user == get_current_user(request)
        matched == OwnedBy(website_entries, entry_id, user)
    IN
    IF user = NoUser
    THEN /\ resp' = NotAuthenticated("delete_website_entry", request,
                                     entry_id, NoBody)
         /\ UNCHANGED <<now, encryption_key, db, next_id, in_flight>>
    ELSE IF matched = 0
    THEN /\ resp' = NotFound("delete_website_entry", request, entry_id,
                             NoBody, "Website entry not found")
         /\ UNCHANGED <<now, encryption_key, db, next_id, in_flight>>
    ELSE /\ website_entries' =
                DeleteOne(website_entries, matched)
         /\ resp' = Deleted("delete_website_entry", request, entry_id,
                            "Website entry deleted successfully")
         /\ UNCHANGED <<now, encryption_key, users, user_sessions,
                        app_entries, other_notes, next_id, in_flight>>

----------------------------------------------------------------------------
(* App entries endpoints *)

\* POST /apps
create_app_entry(request, entry, iv) ==
    LET user == get_current_user(request)
        app_entry == NewEntry(EncryptPassword(entry, iv), user, next_id)
    IN
    IF user = NoUser
    THEN /\ resp' = NotAuthenticated("create_app_entry", request, 0,
                                     entry)
         /\ UNCHANGED <<now, encryption_key, db, next_id, in_flight>>
    ELSE /\ app_entries' = Append(app_entries, app_entry)
         /\ next_id' = next_id + 1
         /\ resp' = Response("create_app_entry", request, 0, entry, 200,
                             "", NoUser, DecryptPassword(app_entry),
                             <<>>)
         /\ UNCHANGED <<now, encryption_key, users, user_sessions,
                        website_entries, other_notes, in_flight>>

\* GET /apps
get_app_entries(request, search) ==
    LET user == get_current_user(request) IN
    /\ resp' =
          IF user = NoUser
          THEN NotAuthenticated("get_app_entries", request, 0,
                                SearchFor(search))
          ELSE Response("get_app_entries", request, 0,
                        SearchFor(search), 200, "", NoUser, NoEntry,
                        DecryptAll(ListEntries(app_entries, user, search,
                                               {"app_name", "purpose",
                                                "username"})))
    /\ UNCHANGED <<now, encryption_key, db, next_id, in_flight>>

\* PUT /apps/{entry_id}
update_app_entry(request, entry_id, entry_update, iv) ==
    LET user == get_current_user(request)
        entry_dict == UpdateFields(EncryptPassword(entry_update, iv))
        matched == OwnedBy(app_entries, entry_id, user)
    IN
    IF user = NoUser
    THEN /\ resp' = NotAuthenticated("update_app_entry", request,
                                     entry_id, entry_update)
         /\ UNCHANGED <<now, encryption_key, db, next_id, in_flight>>
    ELSE IF matched = 0
    THEN /\ resp' = NotFound("update_app_entry", request, entry_id,
                             entry_update, "App entry not found")
         /\ UNCHANGED <<now, encryption_key, db, next_id, in_flight>>
    ELSE /\ app_entries' =
                UpdateOne(app_entries, matched, entry_dict)
         /\ resp' = Response("update_app_entry", request, entry_id,
                             entry_update, 200, "", NoUser,
                             DecryptPassword(app_entries'[matched]),
                             <<>>)
         /\ UNCHANGED <<now, encryption_key, users, user_sessions,
                        website_entries, other_notes, next_id, in_flight>>

\* DELETE /apps/{entry_id}
delete_app_entry(request, entry_id) ==
    LET user == get_current_user(request)
        matched == OwnedBy(app_entries, entry_id, user)
    IN
    IF user = NoUser
    THEN /\ resp' = NotAuthenticated("delete_app_entry", request,
                                     entry_id, NoBody)
         /\ UNCHANGED <<now, encryption_key, db, next_id, in_flight>>
    ELSE IF matched = 0
    THEN /\ resp' = NotFound("delete_app_entry", request, entry_id,
                             NoBody, "App entry not found")
         /\ UNCHANGED <<now, encryption_key, db, next_id, in_flight>>
    ELSE /\ app_entries' =
                DeleteOne(app_entries, matched)
         /\ resp' = Deleted("delete_app_entry", request, entry_id,
                            "App entry deleted successfully")
         /\ UNCHANGED <<now, encryption_key, users, user_sessions,
                        website_entries, other_notes, next_id, in_flight>>

----------------------------------------------------------------------------
(* Other notes endpoints *)

\* POST /notes
create_note(request, note) ==
    LET user == get_current_user(request)
        other_note == NewEntry(note, user, next_id)
    IN
    IF user = NoUser
    THEN /\ resp' = NotAuthenticated("create_note", request, 0, note)
         /\ UNCHANGED <<now, encryption_key, db, next_id, in_flight>>
    ELSE /\ other_notes' = Append(other_notes, other_note)
         /\ next_id' = next_id + 1
         /\ resp' = Response("create_note", request, 0, note, 200, "",
                             NoUser, other_note, <<>>)
         /\ UNCHANGED <<now, encryption_key, users, user_sessions,
                        website_entries, app_entries, in_flight>>

\* GET /notes
get_notes(request, search) ==
    LET user == get_current_user(request) IN
    /\ resp' =
          IF user = NoUser
          THEN NotAuthenticated("get_notes", request, 0, SearchFor(search))
          ELSE Response("get_notes", request, 0, SearchFor(search), 200, "",
                        NoUser, NoEntry,
                        ListEntries(other_notes, user, search,
                                    {"title", "content"}))
    /\ UNCHANGED <<now, encryption_key, db, next_id, in_flight>>

\* PUT /notes/{note_id}
update_note(request, note_id, note_update) ==
    LET user == get_current_user(request)
        note_dict == UpdateFields(note_update)
        matched == OwnedBy(other_notes, note_id, user)
    IN
    IF user = NoUser
    THEN /\ resp' = NotAuthenticated("update_note", request, note_id,
                                     note_update)
         /\ UNCHANGED <<now, encryption_key, db, next_id, in_flight>>
    ELSE IF matched = 0
    THEN /\ resp' = NotFound("update_note", request, note_id, note_update,
                             "Note not found")
         /\ UNCHANGED <<now, encryption_key, db, next_id, in_flight>>
    ELSE /\ other_notes' =
                UpdateOne(other_notes, matched, note_dict)
         /\ resp' = Response("update_note", request, note_id, note_update,
                             200, "", NoUser, other_notes'[matched], <<>>)
         /\ UNCHANGED <<now, encryption_key, users, user_sessions,
                        website_entries, app_entries, next_id, in_flight>>

\* DELETE /notes/{note_id}
delete_note(request, note_id) ==
    LET user == get_current_user(request)
        matched == OwnedBy(other_notes, note_id, user)
    IN
    IF user = NoUser
    THEN /\ resp' = NotAuthenticated("delete_note", request, note_id, NoBody)
         /\ UNCHANGED <<now, encryption_key, db, next_id, in_flight>>
    ELSE IF matched = 0
    THEN /\ resp' = NotFound("delete_note", request, note_id, NoBody,
                             "Note not found")
         /\ UNCHANGED <<now, encryption_key, db, next_id, in_flight>>
    ELSE /\ other_notes' =
                DeleteOne(other_notes, matched)
         /\ resp' = Deleted("delete_note", request, note_id,
                            "Note deleted successfully")
         /\ UNCHANGED <<now, encryption_key, users, user_sessions,
                        website_entries, app_entries, next_id, in_flight>>

\* the clock of the process advances; no request is being answered
Tick(days, limit) ==
    /\ now + days <= limit
    /\ now' = now + days
    /\ resp' = Idle
    /\ UNCHANGED <<encryption_key, db, next_id, in_flight>>

----------------------------------------------------------------------------
(* The session layer on its own: two identities, two tokens *)

Emails == {"a@x", "b@x"}
Names == {"n1"}
Tokens == {"t1", "t2"}

\* callers with a cookie, a bearer token, both (naming different sessions),
\* another scheme, or nothing
Requests ==
    {Request(NoToken, NoAuthorization),
     Request("t1", NoAuthorization),
     Request(NoToken, <<"Bearer", "t1">>),
     Request("t2", <<"Bearer", "t1">>),
     Request("t1", <<"Bearer", "t2">>),
     Request(NoToken, <<"Basic", "t1">>)}

\* an exchange draws one uuid4 for the session and one more for a new user
IdsDrawn(email) ==
    IF UserByEmail(users, email) = 0 THEN 2 ELSE 1

Exchange ==
    \E e \in Emails, n \in Names, t \in Tokens :
        /\ next_id + IdsDrawn(e) - 1 <= MaxId
        /\ process_session(Assertion(e, n, t))
\* the service answers 200 with an assertion that has no session_token
ExchangeWithoutToken ==
    \E e \in Emails, n \in Names :
        /\ next_id + IdsDrawn(e) - 2 <= MaxId
        /\ process_session(Assertion(e, n, Absent))
ExchangeRejected == process_session(Rejected)
ExchangeUnreachable == process_session(Unreachable)
Logout == \E r \in Requests : logout(r)
Me == \E r \in Requests : get_current_user_info(r)
TickAuth == Tick(1, MaxTime)

NextAuth ==
    \/ Exchange
    \/ ExchangeRejected
    \/ ExchangeUnreachable
    \/ Logout
    \/ Me
    \/ TickAuth

SpecAuth == Init /\ [][NextAuth]_vars

----------------------------------------------------------------------------
(* The vault: each identity signs in once, with its own token *)

TokenOf(email) == IF email = "a@x" THEN "t1" ELSE "t2"

VaultRequests == {Request(t, NoAuthorization) : t \in Tokens}

Passwords == {None, <<"s">>}
Searches == {None, <<"g">>}

WebsiteBodies ==
    {[name |-> <<"G">>, link |-> <<"h">>, purpose |-> <<"p">>,
      login_id |-> None, password |-> pw] : pw \in Passwords}

\* a caller may also supply a string that has the shape of a ciphertext
AppPasswords == {<<"s">>, encrypt_data(1, 1, <<"s">>)}

AppBodies ==
    {[app_name |-> <<"G">>, purpose |-> <<"p">>, username |-> None,
      password |-> pw] : pw \in AppPasswords}

NoteBodies == {[title |-> <<"G">>, content |-> <<"h">>]}

IdsOf(coll) == {coll[i].id : i \in 1..Len(coll)}
StoredIds == IdsOf(website_entries) \cup IdsOf(app_entries)
                 \cup IdsOf(other_notes)

\* the ids a caller may name: those of the stored entries and one that no
\* entry has
EntryIds == StoredIds \cup {next_id}

EntriesCreated == next_id - 1 - Len(users) - Len(user_sessions)
CanCreate == EntriesCreated < MaxEntries

\* the IV an update happens to draw
UpdateIV == CHOOSE iv \in IVs : iv # 1

SignIn ==
    \E e \in Emails :
        /\ UserByEmail(users, e) = 0
        /\ process_session(Assertion(e, "n1", TokenOf(e)))

CreateWebsite ==
    \E r \in VaultRequests, b \in WebsiteBodies, iv \in IVs :
        CanCreate /\ create_website_entry(r, b, iv)
ListWebsites ==
    \E r \in VaultRequests, q \in Searches : get_website_entries(r, q)
UpdateWebsite ==
    \E r \in VaultRequests, id \in EntryIds, b \in WebsiteBodies :
        update_website_entry(r, id, b, UpdateIV)
DeleteWebsite ==
    \E r \in VaultRequests, id \in EntryIds : delete_website_entry(r, id)

CreateApp ==
    \E r \in VaultRequests, b \in AppBodies, iv \in IVs :
        CanCreate /\ create_app_entry(r, b, iv)
ListApps == \E r \in VaultRequests, q \in Searches : get_app_entries(r, q)
UpdateApp ==
    \E r \in VaultRequests, id \in EntryIds, b \in AppBodies :
        update_app_entry(r, id, b, UpdateIV)
DeleteApp ==
    \E r \in VaultRequests, id \in EntryIds : delete_app_entry(r, id)

CreateNote ==
    \E r \in VaultRequests, b \in NoteBodies : CanCreate /\ create_note(r, b)
ListNotes == \E r \in VaultRequests, q \in Searches : get_notes(r, q)
UpdateNote ==
    \E r \in VaultRequests, id \in EntryIds, b \in NoteBodies :
        update_note(r, id, b)
DeleteNote == \E r \in VaultRequests, id \in EntryIds : delete_note(r, id)

NextVault ==
    \/ SignIn
    \/ CreateWebsite
    \/ ListWebsites
    \/ UpdateWebsite
    \/ DeleteWebsite
    \/ CreateApp
    \/ ListApps
    \/ UpdateApp
    \/ DeleteApp
    \/ CreateNote
    \/ ListNotes
    \/ UpdateNote
    \/ DeleteNote

SpecVault == Init /\ [][NextVault]_vars

----------------------------------------------------------------------------
(* Every endpoint behind the session check: one identity, whose session    *)
(* runs out, and callers with its token, another token or none             *)

GateRequests ==
    {Request(NoToken, NoAuthorization), Request("t1", NoAuthorization),
     Request("t2", NoAuthorization), Request(NoToken, <<"Bearer", "t1">>)}

GateWebsite == [name |-> <<"G">>, link |-> <<"h">>, purpose |-> <<"p">>,
                login_id |-> None, password |-> <<"s">>]
GateApp == [app_name |-> <<"G">>, purpose |-> <<"p">>, username |-> None,
            password |-> <<"s">>]
GateNote == [title |-> <<"G">>, content |-> <<"h">>]
GateLock == [password |-> <<"1">>]

GateSignIn ==
    /\ users = <<>>
    /\ process_session(Assertion("a@x", "n1", "t1"))
GateMe == \E r \in GateRequests : get_current_user_info(r)
GateSetLock == \E r \in GateRequests : set_app_lock(r, GateLock, 1)
GateVerifyLock == \E r \in GateRequests : verify_app_lock(r, GateLock)
GateRemoveLock == \E r \in GateRequests : remove_app_lock(r, GateLock)
GateCreateWebsite ==
    \E r \in GateRequests :
        CanCreate /\ create_website_entry(r, GateWebsite, 1)
GateListWebsites ==
    \E r \in GateRequests, q \in Searches : get_website_entries(r, q)
GateUpdateWebsite ==
    \E r \in GateRequests, id \in EntryIds :
        update_website_entry(r, id, GateWebsite, UpdateIV)
GateDeleteWebsite ==
    \E r \in GateRequests, id \in EntryIds : delete_website_entry(r, id)
GateCreateApp ==
    \E r \in GateRequests : CanCreate /\ create_app_entry(r, GateApp, 1)
GateListApps == \E r \in GateRequests, q \in Searches : get_app_entries(r, q)
GateUpdateApp ==
    \E r \in GateRequests, id \in EntryIds :
        update_app_entry(r, id, GateApp, UpdateIV)
GateDeleteApp ==
    \E r \in GateRequests, id \in EntryIds : delete_app_entry(r, id)
GateCreateNote == \E r \in GateRequests : CanCreate /\ create_note(r, GateNote)
GateListNotes == \E r \in GateRequests, q \in Searches : get_notes(r, q)
GateUpdateNote ==
    \E r \in GateRequests, id \in EntryIds : update_note(r, id, GateNote)
GateDeleteNote ==
    \E r \in GateRequests, id \in EntryIds : delete_note(r, id)

\* enough time passes for a session to run out
GateTick == Tick(SESSION_DAYS + 1, MaxTime)

NextGate ==
    \/ GateSignIn
    \/ GateMe
    \/ GateSetLock
    \/ GateVerifyLock
    \/ GateRemoveLock
    \/ GateCreateWebsite
    \/ GateListWebsites
    \/ GateUpdateWebsite
    \/ GateDeleteWebsite
    \/ GateCreateApp
    \/ GateListApps
    \/ GateUpdateApp
    \/ GateDeleteApp
    \/ GateCreateNote
    \/ GateListNotes
    \/ GateUpdateNote
    \/ GateDeleteNote
    \/ GateTick

SpecGate == Init /\ [][NextGate]_vars

----------------------------------------------------------------------------
(* Session lifetime *)

SessionsWithToken(t) ==
    {i \in 1..Len(user_sessions) : user_sessions[i].session_token = t}

\* C5: a session issued at t with expiry t + 7d resolves to its user at every
\* check time strictly before the expiry and to unauthenticated at every
\* check time at or after the expiry (a session being the only one that
\* carries its token).
C5_ExpiryIsExclusive ==
    \A i \in 1..Len(user_sessions) :
        LET s == user_sessions[i]
            caller == resolve_token(s.session_token, user_sessions, users,
                                    now)
        IN  Cardinality(SessionsWithToken(s.session_token)) = 1 =>
                IF now < s.expires_at THEN caller.id = s.user_id
                ELSE caller = NoUser

\* C7: after a logout presenting token t, by cookie or by bearer header, no
\* session with token t remains in the session store.
C7_LogoutRevokesPresentedToken ==
    (resp.op = "logout" /\ session_token_of(resp.request) # NoToken) =>
        SessionsWithToken(session_token_of(resp.request)) = {}

\* C8: with a cookie token present the caller is decided by the cookie token
\* alone; the bearer token of the Authorization header decides only when no
\* cookie token is present; with neither the caller is unauthenticated.
BearerOf(request) ==
    IF request.authorization # NoAuthorization
       /\ request.authorization[1] = "Bearer"
    THEN request.authorization[2] ELSE NoToken

C8_CookieTakesPrecedence ==
    resp.op = "auth_me" =>
        LET cookie == resp.request.cookie
            caller == IF cookie # NoToken
                      THEN resolve_token(cookie, user_sessions, users, now)
                      ELSE resolve_token(BearerOf(resp.request),
                                         user_sessions, users, now)
        IN  /\ resp.user = caller
            /\ resp.status = (IF caller = NoUser THEN 401 ELSE 200)
            /\ (cookie = NoToken /\ BearerOf(resp.request) = NoToken)
                   => resp.status = 401

\* a request whose cookie names no session while its bearer token names a
\* live one was answered 401
C8_Witness ==
    /\ resp.op = "auth_me"
    /\ resp.request.cookie # NoToken
    /\ resolve_token(resp.request.cookie, user_sessions, users, now) = NoUser
    /\ resolve_token(BearerOf(resp.request), user_sessions, users, now)
           # NoUser
    /\ resp.status = 401

\* C9: a successful exchange appends exactly one session, with the asserted
\* token, owned by the user with the asserted email, expiring 7 days after
\* issuance; it appends a user only when no user has that email and otherwise
\* leaves the user store as it was.
C9_ExchangeIssuesOneSession ==
    [][(resp'.op = "process_session" /\ resp'.status = 200) =>
          LET a == resp'.body
              known == UserByEmail(users, a.email)
              s == user_sessions'[Len(user_sessions')]
              owner == UserByEmail(users', a.email)
          IN  /\ Len(user_sessions') = Len(user_sessions) + 1
              /\ SubSeq(user_sessions', 1, Len(user_sessions))
                     = user_sessions
              /\ s.session_token = a.session_token
              /\ s.expires_at = now + SESSION_DAYS
              /\ owner # 0
              /\ s.user_id = users'[owner].id
              /\ Cardinality({i \in 1..Len(users') :
                                 users'[i].email = a.email}) = 1
              /\ IF known # 0 THEN users' = users
                 ELSE /\ Len(users') = Len(users) + 1
                      /\ SubSeq(users', 1, Len(users)) = users
       ]_vars

\* an exchange for an email that already had a user and a session
C9_Witness ==
    /\ resp.op = "process_session"
    /\ resp.status = 200
    /\ Cardinality({i \in 1..Len(user_sessions) :
                       user_sessions[i].user_id = resp.user.id}) = 2
    /\ Len(users) = 1

\* C10: when the identity service answers with a non-success status or the
\* call fails in transport, the exchange ends with 400 and issues no session.
C10_FailedExchangeIssuesNothing ==
    [][(resp'.op = "process_session" /\ resp'.body.kind # "ok") =>
          /\ resp'.status = 400
          /\ resp'.set_cookie = NoToken
          /\ user_sessions' = user_sessions
       ]_vars

\* a rejected handle was answered 400 while a session of an earlier exchange
\* is in the store
C10_Witness ==
    /\ resp.op = "process_session"
    /\ resp.body.kind = "status"
    /\ resp.status = 400
    /\ Len(user_sessions) = 1

----------------------------------------------------------------------------
(* Ownership and encryption of the vault *)

ListOps == {"get_website_entries", "get_app_entries", "get_notes"}
UpdateOps == {"update_website_entry", "update_app_entry", "update_note"}
DeleteOps == {"delete_website_entry", "delete_app_entry", "delete_note"}
SecretOps == {"create_website_entry", "update_website_entry",
              "create_app_entry", "update_app_entry"}

\* the collection an endpoint works on
CollectionOf(op) ==
    IF op \in {"create_website_entry", "get_website_entries",
               "update_website_entry", "delete_website_entry"}
    THEN website_entries
    ELSE IF op \in {"create_app_entry", "get_app_entries",
                    "update_app_entry", "delete_app_entry"}
         THEN app_entries
         ELSE other_notes

NotFoundDetail(op) ==
    IF op \in {"update_website_entry", "delete_website_entry"}
    THEN "Website entry not found"
    ELSE IF op \in {"update_app_entry", "delete_app_entry"}
         THEN "App entry not found"
         ELSE "Note not found"

Range(seq) == {seq[i] : i \in 1..Len(seq)}

\* C1: a list answered for user U, with or without a search term, holds only
\* entries whose owner is U; no entry of another user is in it.
C1_ListReturnsOnlyOwnEntries ==
    (resp.op \in ListOps /\ resp.status = 200) =>
        /\ get_current_user(resp.request) # NoUser
        /\ \A e \in Range(resp.list) :
               e.user_id = get_current_user(resp.request).id

\* a user listed a collection in which another user has an entry
C1_Witness ==
    /\ resp.op \in ListOps
    /\ resp.status = 200
    /\ \E d \in Range(CollectionOf(resp.op)) :
           d.user_id # get_current_user(resp.request).id

\* C2: update or delete by an authenticated user B of an id whose entry is
\* owned by another user A is answered 404 with the message and the empty
\* payload of an id that does not exist, and leaves every stored entry as it
\* was.
C2_ForeignIdIsNotFound ==
    [][(/\ resp'.op \in UpdateOps \cup DeleteOps
        /\ get_current_user(resp'.request) # NoUser
        /\ \E d \in Range(CollectionOf(resp'.op)) :
               /\ d.id = resp'.id
               /\ d.user_id # get_current_user(resp'.request).id)
       => /\ resp'.status = 404
          /\ resp'.detail = NotFoundDetail(resp'.op)
          /\ resp'.entry = NoEntry
          /\ resp'.list = <<>>
          /\ db' = db
      ]_vars

\* an update or delete that named another user's entry was answered 404
C2_Witness ==
    /\ resp.op \in UpdateOps \cup DeleteOps
    /\ resp.status = 404
    /\ get_current_user(resp.request) # NoUser
    /\ \E d \in Range(CollectionOf(resp.op)) :
           /\ d.id = resp.id
           /\ d.user_id # get_current_user(resp.request).id

\* the outputs of encrypt under the key of this process
IsCiphertext(s) ==
    \E iv \in IVs :
        s = encrypt_data(encryption_key, iv,
                         decrypt_data(encryption_key, s))

\* C3: every non-empty password held in website_entries and app_entries is an
\* output of encrypt, and after a create or update that supplied a non-empty
\* password the stored password is the encryption of that password and not
\* the supplied string.
C3_PasswordsAreCiphertextAtRest ==
    /\ \A d \in Range(website_entries) \cup Range(app_entries) :
           Truthy(d.password) => IsCiphertext(d.password)
    /\ (resp.op \in SecretOps /\ resp.status = 200
            /\ Truthy(resp.body.password)) =>
           \A d \in Range(CollectionOf(resp.op)) :
               d.id = resp.entry.id =>
                   /\ d.password # resp.body.password
                   /\ \E iv \in IVs :
                          d.password = encrypt_data(encryption_key, iv,
                                                    resp.body.password)

\* an update stored a new non-empty password for an entry
C3_Witness ==
    /\ resp.op \in {"update_website_entry", "update_app_entry"}
    /\ resp.status = 200
    /\ Truthy(resp.body.password)
    /\ \E d \in Range(CollectionOf(resp.op)) :
           d.id = resp.entry.id /\ Truthy(d.password)

\* C4: create and update answer with the entry whose password is the
\* plaintext supplied in that call, for every non-empty password.
C4_ResponseCarriesPlaintext ==
    (resp.op \in SecretOps /\ resp.status = 200
        /\ Truthy(resp.body.password)) =>
        resp.entry.password = resp.body.password

\* a create answered with the supplied password while the store holds
\* something else for that entry
C4_Witness ==
    /\ resp.op \in {"create_website_entry", "create_app_entry"}
    /\ resp.status = 200
    /\ Truthy(resp.body.password)
    /\ resp.entry.password = resp.body.password
    /\ \E d \in Range(CollectionOf(resp.op)) :
           d.id = resp.entry.id /\ d.password # resp.entry.password

----------------------------------------------------------------------------
(* The session check in front of every endpoint *)

GatedOps ==
    {"auth_me", "set_app_lock", "verify_app_lock", "remove_app_lock",
     "create_website_entry", "create_app_entry", "create_note"}
        \cup ListOps \cup UpdateOps \cup DeleteOps

\* the token a request presents: the cookie, else the bearer token
Presented(request) ==
    IF request.cookie # NoToken THEN request.cookie ELSE BearerOf(request)

\* the session store holds a session for the presented token that has not
\* run out
HasLiveSession(request) ==
    \E s \in Range(user_sessions) :
        /\ s.session_token = Presented(request)
        /\ Presented(request) # NoToken
        /\ ~(now > s.expires_at)

\* C6: every endpoint other than the session exchange and logout, called
\* without a live session (no token, an unknown token or a token whose
\* session has run out), answers 401 "Not authenticated" and changes nothing
\* in the user, session and entry stores.
C6_NoSessionIsRejected ==
    [][(resp'.op \in GatedOps /\ ~HasLiveSession(resp'.request)) =>
          /\ resp'.status = 401
          /\ resp'.detail = "Not authenticated"
          /\ resp'.entry = NoEntry
          /\ resp'.list = <<>>
          /\ db' = db
          /\ next_id' = next_id
      ]_vars

\* a delete that named a stored entry, with the token of a session that has
\* run out, was answered 401 and the entry is still stored
C6_Witness ==
    /\ resp.op \in DeleteOps
    /\ resp.status = 401
    /\ Presented(resp.request) # NoToken
    /\ \E s \in Range(user_sessions) :
           s.session_token = Presented(resp.request) /\ now > s.expires_at
    /\ \E d \in Range(CollectionOf(resp.op)) : d.id = resp.id

----------------------------------------------------------------------------
(* The app lock: two identities with locks, the first of which signs in a  *)
(* second time with a token of its own, and one website entry              *)

LockPasswords == {<<"1">>, <<"2">>}
Salts == {1, 2}

LockRequests == {Request(t, NoAuthorization) : t \in {"t1", "t2", "t3"}}
LockBodies == {[password |-> p] : p \in LockPasswords}

LockSignIn ==
    \E e \in Emails :
        /\ UserByEmail(users, e) = 0
        /\ process_session(Assertion(e, "n1", TokenOf(e)))
LockSignInAgain ==
    /\ UserByEmail(users, "a@x") # 0
    /\ SessionByToken(user_sessions, "t3") = 0
    /\ process_session(Assertion("a@x", "n1", "t3"))
LockMe == \E r \in LockRequests : get_current_user_info(r)
LockSet ==
    \E r \in LockRequests, b \in LockBodies, salt \in Salts :
        set_app_lock(r, b, salt)
LockVerify ==
    \E r \in LockRequests, b \in LockBodies : verify_app_lock(r, b)
LockRemove ==
    \E r \in LockRequests, b \in LockBodies : remove_app_lock(r, b)
LockCreateWebsite ==
    \E r \in LockRequests :
        website_entries = <<>> /\ create_website_entry(r, GateWebsite, 1)
LockListWebsites == \E r \in LockRequests : get_website_entries(r, None)

NextLock ==
    \/ LockSignIn
    \/ LockSignInAgain
    \/ LockMe
    \/ LockSet
    \/ LockVerify
    \/ LockRemove
    \/ LockCreateWebsite
    \/ LockListWebsites

SpecLock == Init /\ [][NextLock]_vars

----------------------------------------------------------------------------
(* The app lock state machine *)

LockOps == {"set_app_lock", "verify_app_lock", "remove_app_lock"}
CreateOps == {"create_website_entry", "create_app_entry", "create_note"}
VaultOps == CreateOps \cup ListOps \cup UpdateOps \cup DeleteOps
InvalidAppLock == {"No app lock set", "Invalid password"}

\* the app-lock hash of the user with that id
HashOf(usrs, id) == usrs[UserById(usrs, id)].app_lock_hash

\* C11: for one authenticated user, setLock always succeeds and overwrites
\* the hash so that exactly the password it was given verifies; verifyLock(p)
\* succeeds exactly when a hash is configured and it is the hash of p, and
\* fails with InvalidAppLock otherwise; a successful removeLock leaves no
\* hash; no other request changes a hash.  So verifyLock(p) succeeds exactly
\* when the latest successful setLock used p and no removeLock succeeded
\* after it.
C11_VerifyFollowsLatestSet ==
    [][LET caller == get_current_user(resp'.request)
           before == caller.app_lock_hash
           after == HashOf(users', caller.id)
       IN  /\ (resp'.op = "set_app_lock" /\ caller # NoUser) =>
                  /\ resp'.status = 200
                  /\ Truthy(after)
                  /\ \A p \in LockPasswords :
                         verify_password(p, after) <=> p = resp'.body.password
           /\ (resp'.op = "verify_app_lock" /\ caller # NoUser) =>
                  /\ (resp'.status = 200) <=>
                         \E salt \in Salts :
                             before = hash_password(resp'.body.password, salt)
                  /\ resp'.status # 200 =>
                         /\ resp'.status = 400
                         /\ resp'.detail \in InvalidAppLock
                  /\ after = before
           /\ (resp'.op = "remove_app_lock" /\ caller # NoUser) =>
                  after = (IF resp'.status = 200 THEN None ELSE before)
           /\ resp'.op \notin {"set_app_lock", "remove_app_lock"} =>
                  \A i \in 1..Len(users) :
                      users'[i].app_lock_hash = users[i].app_lock_hash
      ]_vars

\* a lock that was set with one password refused another password
C11_Witness ==
    /\ resp.op = "verify_app_lock"
    /\ resp.status = 400
    /\ resp.detail = "Invalid password"
    /\ resp.body.password = <<"1">>
    /\ get_current_user(resp.request).app_lock_hash
           = hash_password(<<"2">>, 2)

\* C12: removeLock clears the caller's hash only when a hash is configured and
\* the password verifies against it; otherwise it fails with InvalidAppLock
\* and the lock state stays as it was.
C12_RemoveNeedsVerification ==
    [][LET caller == get_current_user(resp'.request)
           before == caller.app_lock_hash
       IN  (resp'.op = "remove_app_lock" /\ caller # NoUser) =>
               IF \E salt \in Salts :
                      before = hash_password(resp'.body.password, salt)
               THEN /\ resp'.status = 200
                    /\ HashOf(users', caller.id) = None
               ELSE /\ resp'.status = 400
                    /\ resp'.detail \in InvalidAppLock
                    /\ users' = users
      ]_vars

\* a removal with the wrong password was refused and the lock is still there
C12_Witness ==
    /\ resp.op = "remove_app_lock"
    /\ resp.status = 400
    /\ resp.detail = "Invalid password"
    /\ Truthy(get_current_user(resp.request).app_lock_hash)

\* a user record without its app-lock hash
WithoutHash(user) == [user EXCEPT !.app_lock_hash = None]

\* C13: verifyLock changes no state; setLock and removeLock change nothing
\* but the app-lock hash of the caller's own user record: no other user's
\* record, no session and no vault entry.
C13_LockTouchesOwnHashOnly ==
    [][resp'.op \in LockOps =>
          LET caller == get_current_user(resp'.request)
          IN  /\ <<user_sessions', website_entries', app_entries',
                   other_notes', next_id'>>
                     = <<user_sessions, website_entries, app_entries,
                         other_notes, next_id>>
              /\ resp'.op = "verify_app_lock" => users' = users
              /\ Len(users') = Len(users)
              /\ \A i \in 1..Len(users) :
                     /\ WithoutHash(users'[i]) = WithoutHash(users[i])
                     /\ users'[i] # users[i] =>
                            caller # NoUser /\ users[i].id = caller.id
      ]_vars

\* the second user set a lock while the first user has one and an entry is
\* stored
C13_Witness ==
    /\ resp.op = "set_app_lock"
    /\ resp.status = 200
    /\ Len(users) = 2
    /\ get_current_user(resp.request).id = users[2].id
    /\ Truthy(users[1].app_lock_hash)
    /\ users[1].app_lock_hash # users[2].app_lock_hash
    /\ website_entries # <<>>

\* C14: while the authenticated user has an app lock configured, no vault
\* operation is served for a session before verifyLock has succeeded for it;
\* in particular not as the first request of a session that was issued with
\* needs_app_lock.
C14_VaultWaitsForVerify ==
    [][(/\ resp.op = "process_session"
        /\ resp.status = 200
        /\ resp.needs_app_lock
        /\ Cardinality(SessionsWithToken(resp.set_cookie)) = 1
        /\ resp'.op \in VaultOps
        /\ Presented(resp'.request) = resp.set_cookie)
       => resp'.status # 200
      ]_vars

----------------------------------------------------------------------------
(* Entries over time: one identity with up to MaxListed websites and notes, *)
(* created and updated on different days and searched by term              *)

SearchTerms == {None, <<"g">>, <<".">>}

\* a website that holds the letter in one of the searched fields, and one
\* that holds it only in a field that is not searched
EntryWebsites ==
    {[name |-> <<"x">>, link |-> <<"h">>, purpose |-> <<"G">>,
      login_id |-> None, password |-> <<"s">>],
     [name |-> <<"x">>, link |-> <<"h">>, purpose |-> <<"p">>,
      login_id |-> <<"g">>, password |-> None]}

EntryNotes == {[title |-> <<"x">>, content |-> <<"G">>]}

EntryRequest == Request("t1", NoAuthorization)

\* the ids a caller may name: every id drawn so far, those of deleted
\* entries among them, and one not drawn yet
DrawnIds == 1..next_id

EntrySignIn ==
    /\ users = <<>>
    /\ process_session(Assertion("a@x", "n1", "t1"))
EntryCreateWebsite ==
    \E b \in EntryWebsites :
        /\ EntriesCreated < MaxListed
        /\ create_website_entry(EntryRequest, b, 1)
EntryListWebsites ==
    \E q \in SearchTerms : get_website_entries(EntryRequest, q)
EntryUpdateWebsite ==
    \E id \in DrawnIds, b \in EntryWebsites :
        update_website_entry(EntryRequest, id, b, UpdateIV)
EntryDeleteWebsite ==
    \E id \in DrawnIds : delete_website_entry(EntryRequest, id)
EntryCreateNote ==
    \E b \in EntryNotes :
        EntriesCreated < MaxListed /\ create_note(EntryRequest, b)
EntryListNotes == \E q \in SearchTerms : get_notes(EntryRequest, q)
EntryUpdateNote ==
    \E id \in DrawnIds, b \in EntryNotes : update_note(EntryRequest, id, b)
EntryDeleteNote == \E id \in DrawnIds : delete_note(EntryRequest, id)

\* days pass while the session lives
EntryTick == Tick(4, SESSION_DAYS)

NextEntries ==
    \/ EntrySignIn
    \/ EntryCreateWebsite
    \/ EntryListWebsites
    \/ EntryUpdateWebsite
    \/ EntryDeleteWebsite
    \/ EntryCreateNote
    \/ EntryListNotes
    \/ EntryUpdateNote
    \/ EntryDeleteNote
    \/ EntryTick

SpecEntries == Init /\ [][NextEntries]_vars

----------------------------------------------------------------------------
(* Search, order, update and delete of entries *)

\* the fields a search looks at
Designated(op) ==
    IF op = "get_website_entries" THEN {"name", "link", "purpose"}
    ELSE IF op = "get_app_entries" THEN {"app_name", "purpose", "username"}
         ELSE {"title", "content"}

\* field holds term as a substring, letter case aside
Contains(term, field) ==
    /\ field # None
    /\ \E start \in 1..(Len(field) - Len(term) + 1) :
           \A j \in 1..Len(term) :
               Lower(term[j]) = Lower(field[start + j - 1])

\* C15: a list with a search term returns exactly the caller's entries in
\* which at least one designated field holds the term as a literal substring,
\* letter case aside; other fields never make an entry match.
C15_SearchIsLiteralSubstring ==
    (resp.op \in ListOps /\ resp.status = 200 /\ Truthy(resp.body.search)) =>
        IdsOf(resp.list) =
            {d.id : d \in
                {d \in Range(CollectionOf(resp.op)) :
                    /\ d.user_id = get_current_user(resp.request).id
                    /\ \E f \in Designated(resp.op) :
                           Contains(resp.body.search, d[f])}}

\* the collection of an endpoint among the three given
CollectionAmong(op, websites, apps, notes) ==
    IF op \in {"create_website_entry", "get_website_entries",
               "update_website_entry", "delete_website_entry"}
    THEN websites
    ELSE IF op \in {"create_app_entry", "get_app_entries",
                    "update_app_entry", "delete_app_entry"}
         THEN apps
         ELSE notes

IdsInOrder(docs) == [i \in 1..Len(docs) |-> docs[i].id]

\* the position of the document with that id, 0 when there is none
PositionOf(coll, id) == First({i \in 1..Len(coll) : coll[i].id = id})

\* C16: a list is ordered newest-created first, and an update of an entry
\* leaves the order of the caller's list as it was.
C16_NewestFirstAndStable ==
    [][/\ (resp'.op \in ListOps /\ resp'.status = 200) =>
              \A i, j \in 1..Len(resp'.list) :
                  i < j => resp'.list[i].created_at
                               >= resp'.list[j].created_at
       /\ (resp'.op \in UpdateOps /\ resp'.status = 200) =>
              LET caller == get_current_user(resp'.request)
                  before == CollectionAmong(resp'.op, website_entries,
                                            app_entries, other_notes)
                  after == CollectionAmong(resp'.op, website_entries',
                                           app_entries', other_notes')
              IN  \A q \in {None} :
                      IdsInOrder(ListEntries(after, caller, q, {}))
                          = IdsInOrder(ListEntries(before, caller, q, {}))
      ]_vars

\* the older of two entries was updated on a later day than it was created
\* and is still listed last
C16_Witness ==
    /\ resp.op \in UpdateOps
    /\ resp.status = 200
    /\ LET listed == ListEntries(CollectionOf(resp.op),
                                 get_current_user(resp.request), None, {})
       IN  /\ Len(listed) = 2
           /\ listed[2].id = resp.id
           /\ listed[2].created_at < listed[1].created_at
           /\ listed[2].updated_at > listed[2].created_at

\* C17: a successful update replaces every mutable field of the stored entry
\* by the supplied value (a password by its encryption, an omitted password
\* by none), sets updated_at to the time of the update, and leaves the id,
\* the owner and created_at of the entry, and everything else stored, as it
\* was.
C17_UpdateReplacesMutableFields ==
    [][(resp'.op \in UpdateOps /\ resp'.status = 200) =>
          LET before == CollectionAmong(resp'.op, website_entries,
                                        app_entries, other_notes)
              after == CollectionAmong(resp'.op, website_entries',
                                       app_entries', other_notes')
              i == PositionOf(before, resp'.id)
              body == resp'.body
          IN  /\ i # 0
              /\ Len(after) = Len(before)
              /\ \A k \in 1..Len(before) : k # i => after[k] = before[k]
              /\ after[i].id = before[i].id
              /\ after[i].user_id = before[i].user_id
              /\ after[i].created_at = before[i].created_at
              /\ after[i].updated_at = now
              /\ \A f \in DOMAIN body \ {"password"} : after[i][f] = body[f]
              /\ "password" \in DOMAIN body =>
                     IF Truthy(body.password)
                     THEN /\ after[i].password # body.password
                          /\ decrypt_data(encryption_key, after[i].password)
                                 = body.password
                     ELSE after[i].password = body.password
              /\ \A op \in UpdateOps \ {resp'.op} :
                     CollectionAmong(op, website_entries', app_entries',
                                     other_notes')
                         = CollectionAmong(op, website_entries, app_entries,
                                           other_notes)
              /\ <<users', user_sessions', next_id'>>
                     = <<users, user_sessions, next_id>>
      ]_vars

\* an update without a password, on a later day than the entry was created,
\* left the entry without a password while another entry is stored
C17_Witness ==
    /\ resp.op = "update_website_entry"
    /\ resp.status = 200
    /\ resp.body.password = None
    /\ Len(website_entries) = 2
    /\ \E d \in Range(website_entries) :
           /\ d.id = resp.id
           /\ d.password = None
           /\ d.updated_at > d.created_at

\* C18: a successful delete removes the one entry of that id owned by the
\* caller and leaves every other entry as it was; an id that was removed is
\* never stored again, so no list returns it and every later update or delete
\* of it is answered NotFound.
C18_DeleteIsFinal ==
    [][LET caller == get_current_user(resp'.request)
           before == CollectionAmong(resp'.op, website_entries, app_entries,
                                     other_notes)
           after == CollectionAmong(resp'.op, website_entries',
                                    app_entries', other_notes')
           i == PositionOf(before, resp'.id)
       IN  /\ (resp'.op \in DeleteOps /\ resp'.status = 200) =>
                  /\ i # 0
                  /\ before[i].user_id = caller.id
                  /\ after = SubSeq(before, 1, i - 1)
                                 \o SubSeq(before, i + 1, Len(before))
                  /\ \A op \in DeleteOps \ {resp'.op} :
                         CollectionAmong(op, website_entries', app_entries',
                                         other_notes')
                             = CollectionAmong(op, website_entries,
                                               app_entries, other_notes)
           /\ \A id \in 1..(next_id - 1) :
                  id \notin StoredIds => id \notin StoredIds'
           /\ (resp'.op \in ListOps /\ resp'.status = 200) =>
                  IdsOf(resp'.list) \subseteq IdsOf(before)
           /\ (/\ resp'.op \in UpdateOps \cup DeleteOps
               /\ caller # NoUser
               /\ resp'.id \notin IdsOf(before)) =>
                  /\ resp'.status = 404
                  /\ resp'.detail = NotFoundDetail(resp'.op)
                  /\ db' = db
      ]_vars

\* an update named the id of an entry that had been deleted, while another
\* entry is stored, and was answered NotFound
C18_Witness ==
    /\ resp.op \in UpdateOps
    /\ resp.status = 404
    /\ resp.id < next_id
    /\ resp.id \notin StoredIds
    /\ resp.id \notin IdsOf(users) \cup IdsOf(user_sessions)
    /\ CollectionOf(resp.op) # <<>>

----------------------------------------------------------------------------
(* PUT /websites/{entry_id} cut at its two calls to the store *)

\* what an exception that no handler catches is answered with
InternalServerError(call) ==
    Response(call.op, call.request, call.id, call.body, 500,
             "Internal Server Error", NoUser, NoEntry, <<>>)

\* server.py:318-337: the session check, update_one and the check of
\* matched_count; a request that matched waits for its find_one
update_website_entry_write(request, entry_id, entry_update, iv) ==
    LET user == get_current_user(request)
        entry_dict == UpdateFields(EncryptPassword(entry_update, iv))
        matched == OwnedBy(website_entries, entry_id, user)
    IN
    IF user = NoUser
    THEN /\ resp' = NotAuthenticated("update_website_entry", request,
                                     entry_id, entry_update)
         /\ UNCHANGED <<now, encryption_key, db, next_id, in_flight>>
    ELSE IF matched = 0
    THEN /\ resp' = NotFound("update_website_entry", request, entry_id,
                             entry_update, "Website entry not found")
         /\ UNCHANGED <<now, encryption_key, db, next_id, in_flight>>
    ELSE /\ website_entries' =
                UpdateOne(website_entries, matched, entry_dict)
         /\ in_flight' = in_flight \cup
                {[op |-> "update_website_entry", request |-> request,
                  id |-> entry_id, body |-> entry_update, user |-> user]}
         /\ UNCHANGED <<now, encryption_key, users, user_sessions,
                        app_entries, other_notes, next_id, resp>>

\* server.py:339-345: find_one, then updated_entry.get("password"), which
\* raises AttributeError when find_one returned None
update_website_entry_read(call) ==
    LET updated_entry == OwnedBy(website_entries, call.id, call.user)
    IN  /\ call \in in_flight
        /\ in_flight' = in_flight \ {call}
        /\ resp' = IF updated_entry = 0
                   THEN InternalServerError(call)
                   ELSE Response(call.op, call.request, call.id, call.body,
                                 200, "", NoUser,
                                 DecryptPassword(
                                     website_entries[updated_entry]),
                                 <<>>)
        /\ UNCHANGED <<now, encryption_key, db, next_id>>

----------------------------------------------------------------------------
(* Concurrent requests of one identity on its website entries *)

RaceRequest == Request("t1", NoAuthorization)

RaceSignIn ==
    /\ users = <<>>
    /\ process_session(Assertion("a@x", "n1", "t1"))
RaceCreateWebsite ==
    \E b \in WebsiteBodies :
        /\ EntriesCreated < MaxListed
        /\ create_website_entry(RaceRequest, b, 1)
RaceListWebsites == get_website_entries(RaceRequest, None)
RaceUpdateWrite ==
    \E id \in EntryIds, b \in WebsiteBodies :
        /\ Cardinality(in_flight) < MaxInFlight
        /\ update_website_entry_write(RaceRequest, id, b, UpdateIV)
RaceUpdateRead == \E call \in in_flight : update_website_entry_read(call)
RaceDeleteWebsite ==
    \E id \in EntryIds : delete_website_entry(RaceRequest, id)

NextRace ==
    \/ RaceSignIn
    \/ RaceCreateWebsite
    \/ RaceListWebsites
    \/ RaceUpdateWrite
    \/ RaceUpdateRead
    \/ RaceDeleteWebsite

SpecRace == Init /\ [][NextRace]_vars

\* C19: an update and a delete of the same entry by its owner, in any
\* interleaving, each end in an outcome of the core (update: the updated
\* entry or NotFound; delete: success or NotFound), and the store ends as in
\* one of the two serial orders, both of which leave the entry deleted.
C19_RaceEndsDefined ==
    get_current_user(resp.request) # NoUser =>
        /\ resp.op = "update_website_entry" =>
               \/ resp.status = 200 /\ resp.entry.id = resp.id
               \/ /\ resp.status = 404
                  /\ resp.detail = "Website entry not found"
        /\ resp.op = "delete_website_entry" =>
               /\ \/ resp.status = 200
                  \/ /\ resp.status = 404
                     /\ resp.detail = "Website entry not found"
               /\ resp.id \notin IdsOf(website_entries)

----------------------------------------------------------------------------
(* Two identities side by side: each signs in once, sets, checks and        *)
(* removes its lock and works on its website entry, one at a time          *)

SideRequests == {Request(t, NoAuthorization) : t \in {"t1", "t2"}}

\* the documents of a collection that belong to one user
OwnDocs(coll, user_id) == SelectSeq(coll, LAMBDA d : d.user_id = user_id)

SideSignIn ==
    \E e \in Emails :
        /\ UserByEmail(users, e) = 0
        /\ process_session(Assertion(e, "n1", TokenOf(e)))
SideSetLock == \E r \in SideRequests : set_app_lock(r, GateLock, 1)
SideVerifyLock ==
    \E r \in SideRequests, b \in LockBodies : verify_app_lock(r, b)
SideRemoveLock ==
    \E r \in SideRequests, b \in LockBodies : remove_app_lock(r, b)
SideCreateWebsite ==
    \E r \in SideRequests :
        /\ EntriesCreated < MaxListed
        /\ OwnDocs(website_entries, get_current_user(r).id) = <<>>
        /\ create_website_entry(r, GateWebsite, 1)
SideListWebsites == \E r \in SideRequests : get_website_entries(r, None)
SideUpdateWebsite ==
    \E r \in SideRequests, id \in EntryIds :
        update_website_entry(r, id, GateWebsite, UpdateIV)
SideDeleteWebsite ==
    \E r \in SideRequests, id \in EntryIds : delete_website_entry(r, id)

NextSide ==
    \/ SideSignIn
    \/ SideSetLock
    \/ SideVerifyLock
    \/ SideRemoveLock
    \/ SideCreateWebsite
    \/ SideListWebsites
    \/ SideUpdateWebsite
    \/ SideDeleteWebsite

SpecSide == Init /\ [][NextSide]_vars

\* everything stored for one user: its record, its sessions, its entries
ViewIn(usrs, sessions, websites, apps, notes, user_id) ==
    [user |-> usrs[UserById(usrs, user_id)],
     sessions |-> OwnDocs(sessions, user_id),
     websites |-> OwnDocs(websites, user_id),
     apps |-> OwnDocs(apps, user_id),
     notes |-> OwnDocs(notes, user_id)]

ViewOf(user_id) ==
    ViewIn(users, user_sessions, website_entries, app_entries, other_notes,
           user_id)

\* the same of the store a step leaves
ViewAfter(user_id) ==
    ViewIn(users', user_sessions', website_entries', app_entries',
           other_notes', user_id)

\* what the caller with that view is answered, from the view alone: status,
\* detail, entry and list of the response
AnswerFrom(view, op, id, body, drawn) ==
    LET i == PositionOf(view.websites, id)
        lock == AppLockFailure(view.user, body)
    IN  IF op = "set_app_lock"
        THEN <<200, "App lock set successfully", NoEntry, <<>>>>
        ELSE IF op = "verify_app_lock"
        THEN IF lock # "" THEN <<400, lock, NoEntry, <<>>>>
             ELSE <<200, "App lock verified", NoEntry, <<>>>>
        ELSE IF op = "remove_app_lock"
        THEN IF lock # "" THEN <<400, lock, NoEntry, <<>>>>
             ELSE <<200, "App lock removed", NoEntry, <<>>>>
        ELSE IF op = "create_website_entry"
        THEN <<200, "", NewEntry(body, view.user, drawn), <<>>>>
        ELSE IF op = "get_website_entries"
        THEN <<200, "", NoEntry,
               DecryptAll(ToList(SortNewestFirst(view.websites),
                                 TO_LIST_LENGTH))>>
        ELSE IF i = 0
        THEN <<404, "Website entry not found", NoEntry, <<>>>>
        ELSE IF op = "update_website_entry"
        THEN <<200, "",
               DecryptPassword(UpdateOne(view.websites, i,
                                         UpdateFields(body))[i]),
               <<>>>>
        ELSE <<200, "Website entry deleted successfully", NoEntry, <<>>>>

\* the views the caller with that view may be left with, from the view alone
ViewsAfter(view, op, id, body, drawn) ==
    LET i == PositionOf(view.websites, id)
    IN  IF op = "set_app_lock"
        THEN {[view EXCEPT !.user.app_lock_hash =
                               hash_password(body.password, salt)] :
                 salt \in Salts}
        ELSE IF op = "remove_app_lock" /\ AppLockFailure(view.user, body) = ""
        THEN {[view EXCEPT !.user.app_lock_hash = None]}
        ELSE IF op = "create_website_entry"
        THEN {[view EXCEPT !.websites =
                  Append(@, NewEntry(EncryptPassword(body, iv), view.user,
                                     drawn))] : iv \in IVs}
        ELSE IF op = "update_website_entry"
        THEN {[view EXCEPT !.websites =
                  UpdateOne(@, i, UpdateFields(EncryptPassword(body, iv)))] :
                 iv \in IVs}
        ELSE IF op = "delete_website_entry"
        THEN {[view EXCEPT !.websites = DeleteOne(@, i)]}
        ELSE {view}

SideOps == LockOps \cup {"create_website_entry", "get_website_entries",
                         "update_website_entry", "delete_website_entry"}

\* C20: requests of different users never interact.  A request of one user
\* leaves everything stored for every other user as it was; the response it
\* gets, and what it leaves stored for its own user, follow from what is
\* stored for its own user and from the request alone.  So the responses of a
\* user are the same in every interleaving with the requests of another user
\* as in the run where the other user makes no request.
C20_UsersDoNotInteract ==
    [][LET caller == get_current_user(resp'.request)
       IN  (resp'.op \in SideOps /\ caller # NoUser) =>
               /\ \A u \in IdsOf(users) \ {caller.id} :
                      ViewAfter(u) = ViewOf(u)
               /\ <<resp'.status, resp'.detail, resp'.entry, resp'.list>>
                      = AnswerFrom(ViewOf(caller.id), resp'.op, resp'.id,
                                   resp'.body, next_id)
               /\ ViewAfter(caller.id)
                      \in ViewsAfter(ViewOf(caller.id), resp'.op, resp'.id,
                                     resp'.body, next_id)
      ]_vars

\* a user without a lock listed its one entry while another user has a lock
\* and an entry of its own
C20_Witness ==
    /\ resp.op = "get_website_entries"
    /\ resp.status = 200
    /\ Len(resp.list) = 1
    /\ get_current_user(resp.request).app_lock_hash = None
    /\ \E i \in 1..Len(users) :
           /\ users[i].id # get_current_user(resp.request).id
           /\ Truthy(users[i].app_lock_hash)
           /\ OwnDocs(website_entries, users[i].id) # <<>>

----------------------------------------------------------------------------
(* What a rejected request is told *)

\* everything of a response that reaches the caller
Payload(response) ==
    <<response.status, response.detail, response.user,
      response.needs_app_lock, response.entry, response.list,
      response.set_cookie, response.delete_cookie>>

\* C21: on every authenticated endpoint a request with no token, one with a
\* token that no session carries and one with the token of a session that has
\* run out get the same response, 401 "Not authenticated" and nothing else.
C21_RejectionsAreIdentical ==
    [][(resp'.op \in GatedOps /\ ~HasLiveSession(resp'.request)) =>
          Payload(resp') = <<401, "Not authenticated", NoUser, FALSE,
                             NoEntry, <<>>, NoToken, FALSE>>
      ]_vars

\* GET /auth/me with the token of a session that has run out was answered 401
C21_Witness ==
    /\ resp.op = "auth_me"
    /\ resp.status = 401
    /\ \E s \in Range(user_sessions) :
           s.session_token = Presented(resp.request) /\ now > s.expires_at

----------------------------------------------------------------------------
(* Restarts: the process ends and starts again with a key of its own, the   *)
(* store keeps what was written; one identity with up to MaxListed websites *)

\* server.py:32-34 run again: Fernet.generate_key() yields a key that was not
\* used before; requests that were being served are gone
Restart ==
    /\ encryption_key < MaxKey
    /\ encryption_key' = encryption_key + 1
    /\ resp' = Idle
    /\ in_flight' = {}
    /\ UNCHANGED <<now, db, next_id>>

RestartRequest == Request("t1", NoAuthorization)

RestartSignIn ==
    /\ users = <<>>
    /\ process_session(Assertion("a@x", "n1", "t1"))
RestartCreateWebsite ==
    \E iv \in IVs :
        /\ EntriesCreated < MaxListed
        /\ create_website_entry(RestartRequest, GateWebsite, iv)
RestartListWebsites ==
    \E q \in Searches : get_website_entries(RestartRequest, q)
RestartUpdateWebsite ==
    \E id \in EntryIds, b \in WebsiteBodies :
        update_website_entry(RestartRequest, id, b, UpdateIV)
RestartDeleteWebsite ==
    \E id \in EntryIds : delete_website_entry(RestartRequest, id)

NextRestart ==
    \/ RestartSignIn
    \/ RestartCreateWebsite
    \/ RestartListWebsites
    \/ RestartUpdateWebsite
    \/ RestartDeleteWebsite
    \/ Restart

SpecRestart == Init /\ [][NextRestart]_vars

\* the key a stored ciphertext was made under
KeyTag(ciphertext) == ciphertext[3]

\* the stored document of a listed entry
StoredAs(entry, coll) == coll[PositionOf(coll, entry.id)]

\* C22: after a restart a list is answered without error and carries, for
\* every entry whose password was encrypted under the key of an earlier
\* process, the stored ciphertext as it is and not the plaintext; an entry
\* encrypted under the key of this process carries its plaintext.
C22_RestartStrandsSecrets ==
    (resp.op = "get_website_entries"
        /\ get_current_user(resp.request) # NoUser) =>
        /\ resp.status = 200
        /\ \A e \in Range(resp.list) :
               LET stored == StoredAs(e, website_entries).password
               IN  Truthy(stored) =>
                       IF KeyTag(stored) = ToString(encryption_key)
                       THEN e.password = GateWebsite.password
                       ELSE /\ e.password = stored
                            /\ e.password # GateWebsite.password

\* a list after a restart carried the ciphertext of an entry written before
\* the restart and the plaintext of one written after it
C22_Witness ==
    /\ resp.op = "get_website_entries"
    /\ resp.status = 200
    /\ \E e \in Range(resp.list) :
           /\ e.password = StoredAs(e, website_entries).password
           /\ Truthy(e.password)
    /\ \E e \in Range(resp.list) : e.password = GateWebsite.password

----------------------------------------------------------------------------
(* The flag that routes a caller to the lock prompt *)

\* C23: needs_app_lock in the answer of the session exchange and of
\* GET /auth/me is true exactly when the user the request resolved to has an
\* app-lock hash stored: false for a user just created, true once a lock is
\* set, false again once it is removed.
C23_FlagFollowsStoredHash ==
    (resp.op \in {"process_session", "auth_me"} /\ resp.status = 200) =>
        /\ resp.user.id \in IdsOf(users)
        /\ resp.needs_app_lock = (HashOf(users, resp.user.id) # None)

\* a user that had set a lock signed in again and was told to ask for it
C23_Witness ==
    /\ resp.op = "process_session"
    /\ resp.status = 200
    /\ resp.needs_app_lock
    /\ Truthy(HashOf(users, resp.user.id))

----------------------------------------------------------------------------
(* The helper functions on their own: resp holds the last application, its  *)
(* input and its output                                                     *)

Alphabet == {"s", "B", "F"}

\* the strings over the alphabet of at most that length
RECURSIVE StringsUpTo(_)
StringsUpTo(n) ==
    IF n = 0 THEN {<<>>}
    ELSE StringsUpTo(n - 1)
             \cup {Append(w, c) : w \in StringsUpTo(n - 1), c \in Alphabet}

\* what encrypt is given: strings, the empty one among them, and None
Plaintexts == StringsUpTo(MaxLen) \cup {None}

\* strings that are no ciphertext of any key
Malformed ==
    {<<"s">>, <<"B">>, <<"B", "s">>, <<"B", "F">>, <<"B", "F", "s">>,
     <<"F", "1", "1", "s">>}

\* ciphertexts made under the keys of other processes
OfOtherKeys ==
    {encrypt_data(k, iv, <<"s">>) :
        k \in (1..MaxKey) \ {encryption_key}, iv \in IVs}

Long == [i \in 1..BCRYPT_MAX_BYTES |-> "a"]

\* short secrets, and secrets that differ only after their 72nd byte
Secrets ==
    {<<"1">>, <<"2">>, <<"1", "2">>, Long, Long \o <<"1">>, Long \o <<"2">>}

Applied(op, input, given, output) ==
    [op |-> op, input |-> input, given |-> given, output |-> output]

HelperEncrypt ==
    \E data \in Plaintexts, iv \in IVs :
        /\ resp' = Applied("encrypt_data", data, None,
                           encrypt_data(encryption_key, iv, data))
        /\ UNCHANGED <<now, encryption_key, db, next_id, in_flight>>

\* decrypt applied to what encrypt has just returned; given is the plaintext
HelperDecrypt ==
    /\ resp.op = "encrypt_data"
    /\ resp' = Applied("decrypt_data", resp.output, resp.input,
                       decrypt_data(encryption_key, resp.output))
    /\ UNCHANGED <<now, encryption_key, db, next_id, in_flight>>

\* decrypt applied to a string that this process did not encrypt
HelperDecryptForeign ==
    \E encrypted_data \in Malformed \cup OfOtherKeys :
        /\ resp' = Applied("decrypt_data", encrypted_data, encrypted_data,
                           decrypt_data(encryption_key, encrypted_data))
        /\ UNCHANGED <<now, encryption_key, db, next_id, in_flight>>

HelperHash ==
    \E password \in Secrets, salt \in Salts :
        /\ resp' = Applied("hash_password", password, None,
                           hash_password(password, salt))
        /\ UNCHANGED <<now, encryption_key, db, next_id, in_flight>>

\* verify applied to the hash just made and any secret; given is the secret
\* that was hashed
HelperVerify ==
    \E password \in Secrets :
        /\ resp.op = "hash_password"
        /\ resp' = Applied("verify_password", password, resp.input,
                           verify_password(password, resp.output))
        /\ UNCHANGED <<now, encryption_key, db, next_id, in_flight>>

NextHelpers ==
    \/ HelperEncrypt
    \/ HelperDecrypt
    \/ HelperDecryptForeign
    \/ HelperHash
    \/ HelperVerify
    \/ Restart

SpecHelpers == Init /\ [][NextHelpers]_vars

\* C24: within one process, decrypt returns for the encryption of a non-empty
\* string that string, and encrypt and decrypt return an empty or absent
\* input as it is.
C24_RoundTrip ==
    /\ (resp.op = "decrypt_data" /\ resp.input \notin Malformed
           /\ resp.input \notin OfOtherKeys) =>
           resp.output = resp.given
    /\ (resp.op = "encrypt_data" /\ resp.input \in {<<>>, None}) =>
           /\ resp.output = resp.input
           /\ decrypt_data(encryption_key, resp.input) = resp.input
    /\ (resp.op = "encrypt_data" /\ resp.input \notin {<<>>, None}) =>
           resp.output # resp.input

\* the encryption of a string that itself begins like a ciphertext was
\* decrypted to that string
C24_Witness ==
    /\ resp.op = "decrypt_data"
    /\ resp.given = <<"B", "F">>
    /\ resp.output = <<"B", "F">>
    /\ resp.input # resp.output

\* C25: decrypt returns an input that is malformed or was made under another
\* key as it is, and never leaves by an exception.
C25_DecryptFallsBack ==
    resp.op = "decrypt_data" =>
        /\ resp.output # Raised
        /\ resp.input \in Malformed \cup OfOtherKeys =>
               resp.output = resp.input

\* a ciphertext made under the key of an earlier process came back as it is
C25_Witness ==
    /\ resp.op = "decrypt_data"
    /\ resp.input \in OfOtherKeys
    /\ resp.output = resp.input
    /\ encryption_key > 1

\* C26: verify(p, hash(p)) is true for every secret p, and verify(p2, hash(p))
\* is false for every p2 other than p, secrets with a long common prefix
\* among them.
C26_VerifyTellsSecretsApart ==
    resp.op = "verify_password" =>
        (resp.output <=> resp.input = resp.given)

----------------------------------------------------------------------------
(* Logout and the other sessions *)

SessionsWithout(sessions, t) ==
    SelectSeq(sessions, LAMBDA s : s.session_token # t)

----------------------------------------------------------------------------
(* POST /auth/session cut between its lookup of the user and its inserts *)

\* server.py:160-171: the exchange with the identity service and
\* db.users.find_one({"email": ...}); the request then waits for its inserts
process_session_find(auth_data) ==
    LET existing == UserByEmail(users, auth_data.email) IN
    /\ exchange_succeeded(auth_data)
    /\ in_flight' = in_flight \cup
           {[op |-> "process_session", auth_data |-> auth_data,
             existing_user |-> IF existing = 0 THEN NoUser
                               ELSE users[existing]]}
    /\ UNCHANGED <<now, encryption_key, db, next_id, resp>>

\* server.py:173-206: insert_one of a new user when the lookup found none,
\* insert_one of the session, and the answer
process_session_insert(call) ==
    LET created == call.existing_user = NoUser
        user == IF created THEN new_user(call.auth_data, next_id)
                ELSE call.existing_user
        sid == IF created THEN next_id + 1 ELSE next_id
    IN  /\ call \in in_flight
        /\ in_flight' = in_flight \ {call}
        /\ users' = IF created THEN Append(users, user) ELSE users
        /\ IF call.auth_data.session_token = Absent
           THEN /\ user_sessions' = user_sessions
                /\ next_id' = sid
                /\ resp' = Response("process_session",
                                    Request(NoToken, NoAuthorization), 0,
                                    call.auth_data, 400, "'session_token'",
                                    NoUser, NoEntry, <<>>)
           ELSE /\ user_sessions' =
                       Append(user_sessions,
                              new_session(user, call.auth_data, sid))
                /\ next_id' = sid + 1
                /\ resp' = [Response("process_session",
                                     Request(NoToken, NoAuthorization), 0,
                                     call.auth_data, 200, "", user, NoEntry,
                                     <<>>)
                            EXCEPT !.set_cookie =
                                call.auth_data.session_token]
        /\ UNCHANGED <<now, encryption_key, website_entries, app_entries,
                       other_notes>>

----------------------------------------------------------------------------
(* Concurrent session exchanges *)

\* an exchange is begun while fewer than MaxInFlight have been begun
JoinFind ==
    \E e \in Emails, t \in Tokens :
        /\ Len(user_sessions) + Cardinality(in_flight) < MaxInFlight
        /\ process_session_find(Assertion(e, "n1", t))
JoinInsert == \E call \in in_flight : process_session_insert(call)
JoinMe == \E r \in VaultRequests : get_current_user_info(r)
JoinSetLock == \E r \in VaultRequests : set_app_lock(r, GateLock, 1)
JoinCreateNote ==
    \E r \in VaultRequests :
        /\ other_notes = <<>>
        /\ create_note(r, GateNote)

NextJoin ==
    \/ JoinFind
    \/ JoinInsert
    \/ JoinMe
    \/ JoinSetLock
    \/ JoinCreateNote

SpecJoin == Init /\ [][NextJoin]_vars

\* C28: at most one user record exists per email, also when two exchanges
\* that assert the same new email run at the same time.
C28_OneUserPerEmail ==
    \A i, j \in 1..Len(users) :
        users[i].email = users[j].email => i = j

----------------------------------------------------------------------------
(* DELETE /auth/remove-app-lock cut between its read of the user and its   *)
(* write                                                                    *)

\* server.py:254-264: the session check, which reads the user, and the check
\* of the password against the hash that was read; a request that passed
\* waits for its update_one
remove_app_lock_read(request, verify_request) ==
    LET user == get_current_user(request) IN
    IF user = NoUser
    THEN /\ resp' = NotAuthenticated("remove_app_lock", request, 0,
                                     verify_request)
         /\ UNCHANGED <<now, encryption_key, db, next_id, in_flight>>
    ELSE IF AppLockFailure(user, verify_request) # ""
    THEN /\ resp' = Response("remove_app_lock", request, 0, verify_request,
                             400, AppLockFailure(user, verify_request),
                             NoUser, NoEntry, <<>>)
         /\ UNCHANGED <<now, encryption_key, db, next_id, in_flight>>
    ELSE /\ in_flight' = in_flight \cup
                {[op |-> "remove_app_lock", request |-> request,
                  body |-> verify_request, user |-> user]}
         /\ UNCHANGED <<now, encryption_key, db, next_id, resp>>

\* server.py:265-270: update_one with $unset, and the answer
remove_app_lock_write(call) ==
    /\ call \in in_flight
    /\ in_flight' = in_flight \ {call}
    /\ users' = SetUserField(users, call.user.id, None)
    /\ resp' = Response("remove_app_lock", call.request, 0, call.body, 200,
                        "App lock removed", NoUser, NoEntry, <<>>)
    /\ UNCHANGED <<now, encryption_key, user_sessions, website_entries,
                   app_entries, other_notes, next_id>>

----------------------------------------------------------------------------
(* Concurrent requests of one identity on its lock *)

UnlockSignIn ==
    /\ users = <<>>
    /\ process_session(Assertion("a@x", "n1", "t1"))
UnlockMe == get_current_user_info(RaceRequest)
UnlockSet ==
    \E b \in LockBodies, salt \in Salts : set_app_lock(RaceRequest, b, salt)
UnlockVerify == \E b \in LockBodies : verify_app_lock(RaceRequest, b)
UnlockRemoveRead ==
    \E b \in LockBodies :
        /\ Cardinality(in_flight) < MaxInFlight
        /\ remove_app_lock_read(RaceRequest, b)
UnlockRemoveWrite == \E call \in in_flight : remove_app_lock_write(call)

NextUnlock ==
    \/ UnlockSignIn
    \/ UnlockMe
    \/ UnlockSet
    \/ UnlockVerify
    \/ UnlockRemoveRead
    \/ UnlockRemoveWrite

SpecUnlock == Init /\ [][NextUnlock]_vars

\* C29: a lock is cleared only by a password that verifies against the hash
\* stored at the moment of the clearing write, also when a set with a new
\* password ran between the read of the user and that write.
C29_ClearsOnlyVerifiedLock ==
    [][\A call \in in_flight :
           (in_flight' = in_flight \ {call}
                /\ call.op = "remove_app_lock"
                /\ Truthy(HashOf(users, call.user.id))) =>
               verify_password(call.body.password,
                               HashOf(users, call.user.id))
      ]_vars

----------------------------------------------------------------------------
(* Two updates of one entry at the same time *)

\* the fields that WebsiteEntryCreate carries
SuppliedFields(doc) ==
    <<doc.name, doc.link, doc.purpose, doc.login_id, doc.password>>

\* C30: the entry that a successful update returns carries the values that
\* this update supplied, also when another update of the same entry by the
\* same owner runs at the same time.
C30_ResponseIsOwnWrite ==
    (resp.op = "update_website_entry" /\ resp.status = 200) =>
        SuppliedFields(resp.entry) = SuppliedFields(resp.body)

----------------------------------------------------------------------------
(* One identity with many notes: more than one to_list call takes *)

ManySignIn ==
    /\ users = <<>>
    /\ process_session(Assertion("a@x", "n1", "t1"))
ManyCreateNote ==
    /\ Len(other_notes) < MaxOwned
    /\ create_note(RaceRequest, GateNote)
\* the caller lists while it owns few notes, and again when it owns as many
\* as one to_list call takes, or more
ManyListNotes ==
    /\ Len(other_notes) <= MaxListed \/ Len(other_notes) >= TO_LIST_LENGTH
    /\ get_notes(RaceRequest, None)
\* the first note is deleted while it is the only one
ManyDeleteNote ==
    /\ EntriesCreated <= MaxEntries
    /\ Len(other_notes) = 1
    /\ delete_note(RaceRequest, other_notes[1].id)

NextMany ==
    \/ ManySignIn
    \/ ManyCreateNote
    \/ ManyListNotes
    \/ ManyDeleteNote

SpecMany == Init /\ [][NextMany]_vars

\* C31: a list without a search term holds every entry that its caller owns
\* in the store, however many these are.
C31_ListDropsNothing ==
    (resp.op \in ListOps /\ resp.status = 200 /\ resp.body.search = None) =>
        LET caller == get_current_user(resp.request)
            owned == SelectSeq(CollectionOf(resp.op),
                               LAMBDA d : d.user_id = caller.id)
        IN  IdsOf(owned) \subseteq IdsOf(resp.list)

----------------------------------------------------------------------------
(* Session exchanges that end in an error *)

NextExchange ==
    \/ Exchange
    \/ ExchangeWithoutToken
    \/ ExchangeRejected
    \/ ExchangeUnreachable
    \/ Logout
    \/ Me

SpecExchange == Init /\ [][NextExchange]_vars

\* C33: a session exchange that is answered with an error leaves the users
\* and the sessions as they were before the request.
C33_FailedExchangeWritesNothing ==
    [][(resp'.op = "process_session" /\ resp'.status # 200) =>
          UNCHANGED <<users, user_sessions>>]_vars

----------------------------------------------------------------------------
(* Tokens and the sessions that carry them *)

\* C32: no two sessions in the store carry the same token, and a token that
\* an unexpired session carries resolves to the user of that session.
C32_TokenNamesOneSession ==
    /\ \A i, j \in 1..Len(user_sessions) :
           user_sessions[i].session_token = user_sessions[j].session_token
               => i = j
    /\ \A s \in Range(user_sessions) :
           now < s.expires_at =>
               resolve_token(s.session_token, user_sessions, users, now).id
                   = s.user_id

----------------------------------------------------------------------------
(* Sessions after their issuance *)

\* every session with that token has run out
AllExpired(sessions, t, time) ==
    /\ \E s \in Range(sessions) : s.session_token = t
    /\ \A s \in Range(sessions) :
           s.session_token = t => time > s.expires_at

\* C34: resolving a caller and every vault or app-lock operation leave all
\* sessions as they are, owner and expiry included, and a token whose sessions
\* have all run out resolves to no user from then on, as long as no exchange
\* issues a session.
C34_SessionsAreFixed ==
    [][resp'.op # "process_session" =>
          /\ user_sessions' = user_sessions
          /\ \A t \in Tokens :
                 AllExpired(user_sessions, t, now) =>
                     resolve_token(t, user_sessions', users', now') = NoUser
      ]_vars

\* the owner used the vault and the lock while its session was live, and a
\* vault request with the same token after the session ran out was answered 401
C34_Witness ==
    /\ resp.op \in VaultOps
    /\ resp.status = 401
    /\ Presented(resp.request) = "t1"
    /\ AllExpired(user_sessions, "t1", now)
    /\ website_entries # <<>>
    /\ Truthy(users[1].app_lock_hash)

----------------------------------------------------------------------------
(* Sessions and their users *)

\* C35: the user id of every stored session is the id of a stored user, so
\* a request whose token has an unexpired session is never left without a
\* caller for want of the user record.
C35_SessionsNameUsers ==
    /\ \A s \in Range(user_sessions) : UserById(users, s.user_id) # 0
    /\ \A r \in Requests :
           LET si == SessionByToken(user_sessions, session_token_of(r))
           IN  (si # 0 /\ ~(now > user_sessions[si].expires_at)) =>
                   get_current_user(r).id = user_sessions[si].user_id

\* GET /auth/me was answered with the user of a session while that user has
\* a second session in the store
C35_Witness ==
    /\ resp.op = "auth_me"
    /\ resp.status = 200
    /\ Len(user_sessions) = 2
    /\ \A s \in Range(user_sessions) : s.user_id = resp.user.id
    /\ resp.user \in Range(users)

====
